---- MODULE Spec2Model ----
(***************************************************************************)
(* Model of the commitizen plug-in cz_conventional_commmits_jira_optional: *)
(* the input filters attached to the prompts, the prompt session in which  *)
(* the host asks the questions in order, message() and schema_pattern().   *)
(*                                                                         *)
(* A Python str is modelled as a sequence of one-character strings, so     *)
(* that strip, split, join, replace and regular-expression matching are    *)
(* computed character by character as the interpreter computes them.       *)
(***************************************************************************)
EXTENDS Integers, Sequences, FiniteSets

VARIABLES
    pc,        \* prompt session: name of the question being asked, or
               \* "message" (all answered), "done" (composed), "aborted"
    answers,   \* prompt session: the answers collected so far
    settings,  \* the host configuration: self.config.settings
    msg,       \* the string returned by message()
    error,     \* the exception a filter raised in the session
    text,      \* filter harness: the raw input text
    fname,     \* filter harness: the filter that was applied to text
    result     \* filter harness: what the filter returned or raised

vars == <<pc, answers, settings, msg, error, text, fname, result>>

----------------------------------------------------------------------------
(* Bounds of the model. *)

\* The raw texts of the filter harness are concatenations of at most this
\* many pieces.
MaxPieces == 3

----------------------------------------------------------------------------
(* Python str primitives. *)

\* Characters for which str.isspace() holds (and which \s matches).
Whitespace == {" ", "\t", "\n", "\r", "\f"}

Upper == {"A", "B", "C", "D", "E", "F", "G", "H", "I", "J", "K", "L", "M",
          "N", "O", "P", "Q", "R", "S", "T", "U", "V", "W", "X", "Y", "Z"}

Lower == {"a", "b", "c", "d", "e", "f", "g", "h", "i", "j", "k", "l", "m",
          "n", "o", "p", "q", "r", "s", "t", "u", "v", "w", "x", "y", "z"}

Digit == {"0", "1", "2", "3", "4", "5", "6", "7", "8", "9"}

\* \w
WordChar == Upper \cup Lower \cup Digit \cup {"_"}

RECURSIVE lstrip(_, _)
\* s.lstrip(chars)
lstrip(s, chars) ==
    IF s # <<>> /\ Head(s) \in chars THEN lstrip(Tail(s), chars) ELSE s

RECURSIVE rstrip(_, _)
\* s.rstrip(chars)
rstrip(s, chars) ==
    IF s # <<>> /\ s[Len(s)] \in chars
    THEN rstrip(SubSeq(s, 1, Len(s) - 1), chars)
    ELSE s

\* s.strip(chars): both ends
strip(s, chars) == rstrip(lstrip(s, chars), chars)

RECURSIVE split_at(_, _, _)
\* s.split(): the maximal runs of non-whitespace characters, in order.
\* cur is the token being read, s what is left to read.
split_at(s, cur, seps) ==
    IF s = <<>>
    THEN IF cur = <<>> THEN <<>> ELSE <<cur>>
    ELSE IF Head(s) \in seps
         THEN IF cur = <<>>
              THEN split_at(Tail(s), <<>>, seps)
              ELSE <<cur>> \o split_at(Tail(s), <<>>, seps)
         ELSE split_at(Tail(s), Append(cur, Head(s)), seps)

split(s) == split_at(s, <<>>, Whitespace)

RECURSIVE split_sep(_, _, _)
\* s.split(sep) for a one-character sep: every field, empty ones included.
split_sep(s, cur, sep) ==
    IF s = <<>>
    THEN <<cur>>
    ELSE IF Head(s) = sep
         THEN <<cur>> \o split_sep(Tail(s), <<>>, sep)
         ELSE split_sep(Tail(s), Append(cur, Head(s)), sep)

RECURSIVE join(_, _)
\* sep.join(parts)
join(sep, parts) ==
    IF parts = <<>> THEN <<>>
    ELSE IF Len(parts) = 1 THEN parts[1]
    ELSE parts[1] \o sep \o join(sep, Tail(parts))

\* s.replace(old, new) for a one-character old
replace(s, old, new) == [i \in 1..Len(s) |-> IF s[i] = old THEN new ELSE s[i]]

\* [x for x in parts if x]
RECURSIVE non_empty(_)
non_empty(parts) ==
    IF parts = <<>> THEN <<>>
    ELSE IF Head(parts) = <<>> THEN non_empty(Tail(parts))
    ELSE <<Head(parts)>> \o non_empty(Tail(parts))

----------------------------------------------------------------------------
(* Regular expressions, as the sets of positions a match can end at.       *)
(* A position p in 1..Len(s)+1 is the index of the next character to read; *)
(* a pattern maps the set of positions it may start at to the set of       *)
(* positions it may end at, which is what a backtracking matcher explores. *)

\* One character of class C (a set of characters).
re_in(s, P, C) == {p + 1 : p \in {q \in P : q <= Len(s) /\ s[q] \in C}}

\* One character outside class C: [^...], \S.
re_not_in(s, P, C) == {p + 1 : p \in {q \in P : q <= Len(s) /\ s[q] \notin C}}

\* The literal lit.
re_lit(s, P, lit) ==
    {p + Len(lit) : p \in {q \in P : /\ q + Len(lit) - 1 <= Len(s)
                                     /\ SubSeq(s, q, q + Len(lit) - 1) = lit}}

RECURSIVE re_star_in(_, _, _)
\* C*
re_star_in(s, P, C) ==
    LET Q == P \cup re_in(s, P, C)
    IN  IF Q = P THEN P ELSE re_star_in(s, Q, C)

RECURSIVE re_star_not_in(_, _, _)
\* [^C]*
re_star_not_in(s, P, C) ==
    LET Q == P \cup re_not_in(s, P, C)
    IN  IF Q = P THEN P ELSE re_star_not_in(s, Q, C)

\* C+ and [^C]+
re_plus_in(s, P, C) == re_star_in(s, re_in(s, P, C), C)
re_plus_not_in(s, P, C) == re_star_not_in(s, re_not_in(s, P, C), C)

\* $ without re.MULTILINE: the end of the string, or just before a newline
\* that ends the string.
re_dollar(s, P) ==
    {p \in P : \/ p = Len(s) + 1
               \/ p = Len(s) /\ s[Len(s)] = "\n"}

----------------------------------------------------------------------------
(* What a filter does: it returns a value or raises an exception.          *)

NoResult == [raised |-> "none", value |-> <<>>, message |-> ""]

Return(v) == [raised |-> "none", value |-> v, message |-> ""]

\* raise exceptions.AnswerRequiredError(m): the one exception class of
\* commitizen.cz.exceptions that the module raises.
RaiseAnswerRequiredError(m) ==
    [raised |-> "AnswerRequiredError", value |-> <<>>, message |-> m]

\* commitizen.cz.utils.required_validator(answer, msg), called by
\* _parse_subject: raises AnswerRequiredError(msg) when answer is falsy.
required_validator(answer, m) ==
    IF answer = <<>> THEN RaiseAnswerRequiredError(m) ELSE Return(answer)

\* commitizen.cz.utils.multiple_line_breaker(answer, sep="|"), the body
\* filter: "\n".join(line.strip() for line in answer.split(sep) if line)
multiple_line_breaker(answer) ==
    LET lines == non_empty(split_sep(answer, <<>>, "|"))
    IN  join(<<"\n">>, [i \in 1..Len(lines) |-> strip(lines[i], Whitespace)])

----------------------------------------------------------------------------
(* The filters of the module.                                              *)

\* Faulty variant of _parse_scope: joins the tokens with a space.
_parse_scope_spaces(t) == join(<<" ">>, split(strip(t, Whitespace)))

_parse_scope(t) == join(<<"-">>, split(strip(t, Whitespace)))

\* Faulty variant of _parse_subject: returns the stripped text unvalidated.
_parse_subject_unchecked(t) == Return(strip(strip(t, {"."}), Whitespace))

_parse_subject(t) ==
    required_validator(strip(strip(t, {"."}), Whitespace), "Subject is required.")

\* [A-Z]{2,}-\d+ from the positions P
re_issue_key(s, P) ==
    LET two    == re_in(s, re_in(s, P, Upper), Upper)
        letters == re_star_in(s, two, Upper)
        hyphen == re_lit(s, letters, <<"-">>)
    IN  re_plus_in(s, hyphen, Digit)

\* Faulty variant of match_issue: [A-Z]+ in place of [A-Z]{2,}.
match_issue_one_letter(issue) ==
    LET letters == re_plus_in(issue, {1}, Upper)
        hyphen  == re_lit(issue, letters, <<"-">>)
    IN  re_dollar(issue, re_plus_in(issue, hyphen, Digit)) # {}

\* re.match(r"^[A-Z]{2,}-\d+$", issue) is not None
match_issue(issue) == re_dollar(issue, re_issue_key(issue, {1})) # {}

_parse_jira_issues(t) ==
    LET issues == join(<<" ">>, split(strip(t, Whitespace)))
        tokens == split(issues)
    IN  IF \A i \in 1..Len(tokens) : match_issue(tokens[i])
        THEN Return(issues)
        ELSE RaiseAnswerRequiredError("Enter valid Jira issue keys (e.g., JRA-123).")

\* lambda x: "#" + x.strip().replace(" ", "-") if x else ""
jira_workflow_filter(x) ==
    IF x # <<>>
    THEN <<"#">> \o replace(strip(x, Whitespace), " ", "-")
    ELSE <<>>

\* Faulty variant of jira_time_filter: the prefix without its space.
jira_time_filter_no_space(x) ==
    IF x # <<>> THEN <<"#", "t", "i", "m", "e">> \o x ELSE <<>>

\* lambda x: "#time " + x if x else ""
jira_time_filter(x) ==
    IF x # <<>> THEN <<"#", "t", "i", "m", "e", " ">> \o x ELSE <<>>

\* lambda x: "#comment " + x if x else ""
jira_comment_filter(x) ==
    IF x # <<>>
    THEN <<"#", "c", "o", "m", "m", "e", "n", "t", " ">> \o x
    ELSE <<>>

----------------------------------------------------------------------------
(* The filter harness: one raw text, one filter applied to it.             *)

\* The pieces the raw texts are made of: the characters the filters tell
\* apart, and one well-formed issue key.
Pieces ==
    {<<" ">>, <<"\t">>, <<"\n">>, <<".">>, <<"|">>, <<"a">>, <<"A">>, <<"1">>,
     <<"-">>, <<"A", "B", "-", "1">>}

RECURSIVE TextsOf(_)
TextsOf(n) ==
    IF n = 0 THEN {<<>>}
    ELSE LET T == TextsOf(n - 1) IN T \cup {t \o p : t \in T, p \in Pieces}

Texts == TextsOf(MaxPieces)

Apply_parse_scope ==
    /\ fname = "none"
    /\ fname' = "scope"
    /\ result' = Return(_parse_scope(text))
    /\ UNCHANGED <<pc, answers, settings, msg, error, text>>

Apply_parse_subject ==
    /\ fname = "none"
    /\ fname' = "subject"
    /\ result' = _parse_subject(text)
    /\ UNCHANGED <<pc, answers, settings, msg, error, text>>

Apply_parse_jira_issues ==
    /\ fname = "none"
    /\ fname' = "jira_issues"
    /\ result' = _parse_jira_issues(text)
    /\ UNCHANGED <<pc, answers, settings, msg, error, text>>

Apply_jira_workflow_filter ==
    /\ fname = "none"
    /\ fname' = "jira_workflow"
    /\ result' = Return(jira_workflow_filter(text))
    /\ UNCHANGED <<pc, answers, settings, msg, error, text>>

Apply_jira_time_filter ==
    /\ fname = "none"
    /\ fname' = "jira_time"
    /\ result' = Return(jira_time_filter(text))
    /\ UNCHANGED <<pc, answers, settings, msg, error, text>>

Apply_jira_comment_filter ==
    /\ fname = "none"
    /\ fname' = "jira_comment"
    /\ result' = Return(jira_comment_filter(text))
    /\ UNCHANGED <<pc, answers, settings, msg, error, text>>

Apply_multiple_line_breaker ==
    /\ fname = "none"
    /\ fname' = "body"
    /\ result' = Return(multiple_line_breaker(text))
    /\ UNCHANGED <<pc, answers, settings, msg, error, text>>

----------------------------------------------------------------------------
(* message()                                                               *)

\* self.config.settings.get("breaking_change_exclamation_in_title", False)
exclamation_in_title(st) ==
    IF "breaking_change_exclamation_in_title" \in DOMAIN st
    THEN st["breaking_change_exclamation_in_title"]
    ELSE FALSE

\* formatted_scope = f"({scope})" if scope else ""
formatted_scope(a) ==
    IF a.scope # <<>> THEN <<"(">> \o a.scope \o <<")">> ELSE <<>>

\* Faulty variant of title: the "!" is added for every breaking change, whatever
\* the setting.
title_always_exclamation(a, st) ==
    LET head == a.prefix \o formatted_scope(a)
        marked == IF a.is_breaking_change THEN head \o <<"!">> ELSE head
    IN  IF a.jira_issues # <<>>
        THEN marked \o <<":", " ">> \o a.jira_issues \o <<" ">> \o a.subject
        ELSE marked \o <<":", " ">> \o a.subject

\* The variable title of message(), as it stands when the title is complete.
title(a, st) ==
    LET head == a.prefix \o formatted_scope(a)
        marked == IF a.is_breaking_change /\ exclamation_in_title(st)
                  THEN head \o <<"!">>
                  ELSE head
    IN  IF a.jira_issues # <<>>
        THEN marked \o <<":", " ">> \o a.jira_issues \o <<" ">> \o a.subject
        ELSE marked \o <<":", " ">> \o a.subject

\* formatted_body = f"\n\n{body}" if body else ""
formatted_body(a) ==
    IF a.body # <<>> THEN <<"\n", "\n">> \o a.body ELSE <<>>

\* Faulty variant of formatted_jira: joins the three members, empty ones included.
formatted_jira_unfiltered(a) ==
    LET jira_parts == <<a.jira_workflow, a.jira_time, a.jira_comment>>
    IN  IF non_empty(jira_parts) # <<>>
        THEN <<"\n", "\n">> \o join(<<" ">>, jira_parts)
        ELSE <<>>

\* jira_parts = [x for x in [jira_workflow, jira_time, jira_comment] if x]
\* formatted_jira = f"\n\n{' '.join(jira_parts)}" if jira_parts else ""
formatted_jira(a) ==
    LET jira_parts == non_empty(<<a.jira_workflow, a.jira_time, a.jira_comment>>)
    IN  IF jira_parts # <<>>
        THEN <<"\n", "\n">> \o join(<<" ">>, jira_parts)
        ELSE <<>>

BREAKING_CHANGE == <<"B", "R", "E", "A", "K", "I", "N", "G", " ", "C", "H", "A", "N", "G", "E", ":", " ">>

\* Faulty variant of formatted_footer: the marker is added only to a footer that
\* has some text.
formatted_footer_marker_needs_text(a) ==
    LET footer == IF a.is_breaking_change /\ a.footer # <<>>
                  THEN BREAKING_CHANGE \o a.footer
                  ELSE a.footer
    IN  IF footer # <<>> THEN <<"\n", "\n">> \o footer ELSE <<>>

\* if is_breaking_change: footer = f"BREAKING CHANGE: {footer}"
\* formatted_footer = f"\n\n{footer}" if footer else ""
formatted_footer(a) ==
    LET footer == IF a.is_breaking_change
                  THEN BREAKING_CHANGE \o a.footer
                  ELSE a.footer
    IN  IF footer # <<>> THEN <<"\n", "\n">> \o footer ELSE <<>>

\* return f"{title}{formatted_body}{formatted_jira}{formatted_footer}"
message(a, st) ==
    title(a, st) \o formatted_body(a) \o formatted_jira(a) \o formatted_footer(a)

\* example()
example ==
    <<"f", "i", "x", ":", " ", "c", "o", "r", "r", "e", "c", "t",
      " ", "m", "i", "n", "o", "r", " ", "t", "y", "p", "o", "s",
      " ", "i", "n", " ", "c", "o", "d", "e", "\n", "\n", "s", "e",
      "e", " ", "t", "h", "e", " ", "i", "s", "s", "u", "e", " ",
      "f", "o", "r", " ", "d", "e", "t", "a", "i", "l", "s", " ",
      "o", "n", " ", "t", "h", "e", " ", "t", "y", "p", "o", "s",
      " ", "f", "i", "x", "e", "d", "\n", "\n", "c", "l", "o", "s",
      "e", "s", " ", "i", "s", "s", "u", "e", " ", "#", "1", "2">>

----------------------------------------------------------------------------
(* schema_pattern()                                                        *)

change_types ==
    {<<"b", "u", "i", "l", "d">>,
     <<"b", "u", "m", "p">>,
     <<"c", "h", "o", "r", "e">>,
     <<"c", "i">>,
     <<"d", "o", "c", "s">>,
     <<"f", "e", "a", "t">>,
     <<"f", "i", "x">>,
     <<"p", "e", "r", "f">>,
     <<"r", "e", "f", "a", "c", "t", "o", "r">>,
     <<"r", "e", "v", "e", "r", "t">>,
     <<"s", "t", "y", "l", "e">>,
     <<"t", "e", "s", "t">>}

\* ([A-Z]{2,}-\d+( [A-Z]{2,}-\d+)*)? : the closure of the repeated group
RECURSIVE re_more_issues(_, _)
re_more_issues(s, P) ==
    LET Q == P \cup re_issue_key(s, re_lit(s, P, <<" ">>))
    IN  IF Q = P THEN P ELSE re_more_issues(s, Q)

\* jira_issues_pattern = r"([A-Z]{2,}-\d+( [A-Z]{2,}-\d+)*)?"
jira_issues_pattern(s, P) == P \cup re_more_issues(s, re_issue_key(s, P))

\* jira_metadata_pattern = r"(?:\s#\w+(?: [^\s#]+)?)?"
jira_metadata_pattern(s, P) ==
    LET tag == re_plus_in(s, re_lit(s, re_in(s, P, Whitespace), <<"#">>), WordChar)
        arg == re_plus_not_in(s, re_lit(s, tag, <<" ">>), Whitespace \cup {"#"})
    IN  P \cup tag \cup arg

\* ( jira_metadata_pattern )*
RECURSIVE re_metadata_repeated(_, _)
re_metadata_repeated(s, P) ==
    LET Q == P \cup jira_metadata_pattern(s, P)
    IN  IF Q = P THEN P ELSE re_metadata_repeated(s, Q)

\* The positions at which the pattern returned by schema_pattern() can end
\* when matched from the start of s.
schema_pattern(s) ==
    LET type    == UNION {re_lit(s, {1}, t) : t \in change_types}
        \* (\(\S+\))?
        scope   == type \cup re_lit(s, re_plus_not_in(s, re_lit(s, type, <<"(">>),
                                                      Whitespace), <<")">>)
        \* !?
        bang    == scope \cup re_lit(s, scope, <<"!">>)
        colon   == re_lit(s, bang, <<":", " ">>)
        issues  == jira_issues_pattern(s, colon)
        \* \s*([^\n\r]+)?
        spaces  == re_star_in(s, issues, Whitespace)
        subject == spaces \cup re_plus_not_in(s, spaces, {"\n", "\r"})
        \* (\n\n.*)? with (?s): the dot matches every character
        body    == subject \cup re_star_not_in(s, re_lit(s, subject, <<"\n", "\n">>), {})
        meta    == re_metadata_repeated(s, body)
    IN  re_dollar(s, meta)

\* re.match(schema_pattern(), s) is not None
schema_match(s) == schema_pattern(s) # {}

----------------------------------------------------------------------------
(* The prompt session: the host asks the questions of questions() in their *)
(* order and stores each answer after its filter; an exception raised by a *)
(* filter ends the session, and message() is called once every question is *)
(* answered.                                                               *)

\* The values of the prefix question's choices.
prefix_choices ==
    {<<"f", "i", "x">>,
     <<"f", "e", "a", "t">>,
     <<"d", "o", "c", "s">>,
     <<"s", "t", "y", "l", "e">>,
     <<"r", "e", "f", "a", "c", "t", "o", "r">>,
     <<"p", "e", "r", "f">>,
     <<"t", "e", "s", "t">>,
     <<"b", "u", "i", "l", "d">>,
     <<"c", "h", "o", "r", "e">>,
     <<"c", "i">>}

\* The raw texts typed in the session.
RawJiraIssues ==
    {<<>>, <<"A", "B", "-", "1">>,
     <<" ", "A", "B", "-", "1", " ", " ", "C", "D", "-", "2", "2", " ">>,
     <<"A", "-", "1">>}
RawJiraWorkflow == {<<>>, <<" ">>, <<"i", "n", " ", "r", "e", "v", "i", "e", "w">>}
RawJiraTime == {<<>>, <<"1", "h">>}
RawJiraComment == {<<>>, <<"o", "k">>}
RawScope == {<<>>, <<" ", "m", "y", " ", " ", "i", "o", " ">>}
RawSubject ==
    {<<"f", "i", "x", " ", "i", "t", ".">>, <<" ", ".">>, <<"a", "\n", "b">>,
     <<".", "a">>}
RawBody == {<<>>, <<"w", "h", "y", " ", "|", "h", "o", "w">>}
RawFooter == {<<>>, <<"x">>}

\* self.config.settings: the option absent, or set to a boolean.
SettingsChoices ==
    {[k \in {} |-> FALSE]} \cup
    {[k \in {"breaking_change_exclamation_in_title"} |-> b] : b \in BOOLEAN}

NoAnswers ==
    [jira_issues |-> <<>>, jira_workflow |-> <<>>, jira_time |-> <<>>,
     jira_comment |-> <<>>, prefix |-> <<>>, scope |-> <<>>, subject |-> <<>>,
     body |-> <<>>, footer |-> <<>>, is_breaking_change |-> FALSE]

Ask_jira_issues ==
    /\ pc = "jira_issues"
    /\ \E raw \in RawJiraIssues :
         LET r == _parse_jira_issues(raw)
         IN  IF r.raised = "none"
             THEN /\ answers' = [answers EXCEPT !.jira_issues = r.value]
                  /\ pc' = "jira_workflow"
                  /\ UNCHANGED error
             ELSE /\ error' = r
                  /\ pc' = "aborted"
                  /\ UNCHANGED answers
    /\ UNCHANGED <<settings, msg, text, fname, result>>

Ask_jira_workflow ==
    /\ pc = "jira_workflow"
    /\ \E raw \in RawJiraWorkflow :
         answers' = [answers EXCEPT !.jira_workflow = jira_workflow_filter(raw)]
    /\ pc' = "jira_time"
    /\ UNCHANGED <<settings, msg, error, text, fname, result>>

Ask_jira_time ==
    /\ pc = "jira_time"
    /\ \E raw \in RawJiraTime :
         answers' = [answers EXCEPT !.jira_time = jira_time_filter(raw)]
    /\ pc' = "jira_comment"
    /\ UNCHANGED <<settings, msg, error, text, fname, result>>

Ask_jira_comment ==
    /\ pc = "jira_comment"
    /\ \E raw \in RawJiraComment :
         answers' = [answers EXCEPT !.jira_comment = jira_comment_filter(raw)]
    /\ pc' = "prefix"
    /\ UNCHANGED <<settings, msg, error, text, fname, result>>

Ask_prefix ==
    /\ pc = "prefix"
    /\ \E choice \in prefix_choices :
         answers' = [answers EXCEPT !.prefix = choice]
    /\ pc' = "scope"
    /\ UNCHANGED <<settings, msg, error, text, fname, result>>

Ask_scope ==
    /\ pc = "scope"
    /\ \E raw \in RawScope :
         answers' = [answers EXCEPT !.scope = _parse_scope(raw)]
    /\ pc' = "subject"
    /\ UNCHANGED <<settings, msg, error, text, fname, result>>

Ask_subject ==
    /\ pc = "subject"
    /\ \E raw \in RawSubject :
         LET r == _parse_subject(raw)
         IN  IF r.raised = "none"
             THEN /\ answers' = [answers EXCEPT !.subject = r.value]
                  /\ pc' = "body"
                  /\ UNCHANGED error
             ELSE /\ error' = r
                  /\ pc' = "aborted"
                  /\ UNCHANGED answers
    /\ UNCHANGED <<settings, msg, text, fname, result>>

Ask_body ==
    /\ pc = "body"
    /\ \E raw \in RawBody :
         answers' = [answers EXCEPT !.body = multiple_line_breaker(raw)]
    /\ pc' = "is_breaking_change"
    /\ UNCHANGED <<settings, msg, error, text, fname, result>>

Ask_is_breaking_change ==
    /\ pc = "is_breaking_change"
    /\ \E confirm \in BOOLEAN :
         answers' = [answers EXCEPT !.is_breaking_change = confirm]
    /\ pc' = "footer"
    /\ UNCHANGED <<settings, msg, error, text, fname, result>>

Ask_footer ==
    /\ pc = "footer"
    /\ \E raw \in RawFooter :
         answers' = [answers EXCEPT !.footer = raw]
    /\ pc' = "message"
    /\ UNCHANGED <<settings, msg, error, text, fname, result>>

Compose ==
    /\ pc = "message"
    /\ msg' = message(answers, settings)
    /\ pc' = "done"
    /\ UNCHANGED <<answers, settings, error, text, fname, result>>

----------------------------------------------------------------------------
(* Specifications.                                                         *)

Init ==
    /\ pc = "jira_issues"
    /\ answers = NoAnswers
    /\ settings \in SettingsChoices
    /\ msg = <<>>
    /\ error = NoResult
    /\ text = <<>>
    /\ fname = "none"
    /\ result = NoResult

Next ==
    \/ Ask_jira_issues
    \/ Ask_jira_workflow
    \/ Ask_jira_time
    \/ Ask_jira_comment
    \/ Ask_prefix
    \/ Ask_scope
    \/ Ask_subject
    \/ Ask_body
    \/ Ask_is_breaking_change
    \/ Ask_footer
    \/ Compose

\* The prompt session followed by message().
Spec == Init /\ [][Next]_vars

FilterInit ==
    /\ pc = "jira_issues"
    /\ answers = NoAnswers
    /\ settings = [k \in {} |-> FALSE]
    /\ msg = <<>>
    /\ error = NoResult
    /\ text \in Texts
    /\ fname = "none"
    /\ result = NoResult

FilterNext ==
    \/ Apply_parse_scope
    \/ Apply_parse_subject
    \/ Apply_parse_jira_issues
    \/ Apply_jira_workflow_filter
    \/ Apply_jira_time_filter
    \/ Apply_jira_comment_filter
    \/ Apply_multiple_line_breaker

\* One filter applied to one raw text.
FilterSpec == FilterInit /\ [][FilterNext]_vars

----------------------------------------------------------------------------
(* Vocabulary of the properties, defined without the operators above.      *)

StartsWith(s, p) == Len(p) <= Len(s) /\ SubSeq(s, 1, Len(p)) = p

HasLineBreak(s) == \E i \in 1..Len(s) : s[i] \in {"\n", "\r"}

\* s up to its first newline.
FirstLine(s) ==
    LET breaks == {i \in 1..Len(s) : s[i] = "\n"}
    IN  IF breaks = {} THEN s
        ELSE SubSeq(s, 1, (CHOOSE i \in breaks : \A j \in breaks : i <= j) - 1)

RECURSIVE Flatten(_)
Flatten(ss) == IF ss = <<>> THEN <<>> ELSE Head(ss) \o Flatten(Tail(ss))

\* s without its leading and trailing whitespace.
Trimmed(s) ==
    LET ink == {i \in 1..Len(s) : s[i] \notin Whitespace}
    IN  IF ink = {} THEN <<>>
        ELSE SubSeq(s, CHOOSE i \in ink : \A j \in ink : i <= j,
                       CHOOSE i \in ink : \A j \in ink : j <= i)

\* s without its trailing periods.
WithoutTrailingPeriods(s) ==
    LET kept == {i \in 1..Len(s) : s[i] # "."}
    IN  IF kept = {} THEN <<>>
        ELSE SubSeq(s, 1, CHOOSE i \in kept : \A j \in kept : j <= i)

\* s without its leading and its trailing periods.
WithoutOuterPeriods(s) ==
    LET kept == {i \in 1..Len(s) : s[i] # "."}
    IN  IF kept = {} THEN <<>>
        ELSE SubSeq(s, CHOOSE i \in kept : \A j \in kept : i <= j,
                       CHOOSE i \in kept : \A j \in kept : j <= i)

\* The whitespace-separated tokens of s joined by sep: every run of
\* whitespace between two tokens becomes one sep, the others vanish.
TokensJoinedBy(s, sep) ==
    LET t == Trimmed(s)
    IN  Flatten([i \in 1..Len(t) |->
                   IF t[i] \notin Whitespace THEN <<t[i]>>
                   ELSE IF t[i - 1] \notin Whitespace THEN sep ELSE <<>>])

\* tok is UPPERCASE-LETTERS(>=2) '-' DIGITS(>=1)
IsIssueKey(tok) ==
    \E k \in 3..(Len(tok) - 1) :
       /\ tok[k] = "-"
       /\ \A i \in 1..(k - 1) : tok[i] \in Upper
       /\ \A i \in (k + 1)..Len(tok) : tok[i] \in Digit

\* Every whitespace-separated token of s is an issue key.
OnlyIssueKeys(s) ==
    \A i \in 1..Len(s) : \A j \in i..Len(s) :
       ( /\ \A k \in i..j : s[k] \notin Whitespace
         /\ (i = 1 \/ s[i - 1] \in Whitespace)
         /\ (j = Len(s) \/ s[j + 1] \in Whitespace) )
       => IsIssueKey(SubSeq(s, i, j))

ExclamationEnabled ==
    settings = [k \in {"breaking_change_exclamation_in_title"} |-> TRUE]

ExpectedTitle ==
    answers.prefix
      \o (IF answers.scope # <<>> THEN <<"(">> \o answers.scope \o <<")">> ELSE <<>>)
      \o (IF answers.is_breaking_change /\ ExclamationEnabled THEN <<"!">> ELSE <<>>)
      \o <<":", " ">>
      \o (IF answers.jira_issues # <<>> THEN answers.jira_issues \o <<" ">> ELSE <<>>)
      \o answers.subject

Section(content) == IF content # <<>> THEN <<"\n", "\n">> \o content ELSE <<>>

ExpectedMetadata ==
    LET w == answers.jira_workflow
        t == answers.jira_time
        c == answers.jira_comment
    IN  w \o (IF w # <<>> /\ (t # <<>> \/ c # <<>>) THEN <<" ">> ELSE <<>>)
          \o t \o (IF t # <<>> /\ c # <<>> THEN <<" ">> ELSE <<>>)
          \o c

ExpectedFooter ==
    IF answers.is_breaking_change
    THEN <<"B", "R", "E", "A", "K", "I", "N", "G", " ",
           "C", "H", "A", "N", "G", "E", ":", " ">> \o answers.footer
    ELSE answers.footer

----------------------------------------------------------------------------
(* Properties of message(), checked on the sessions of Spec.               *)

C2_FooterSection ==
    pc = "done" =>
       LET before == title(answers, settings) \o formatted_body(answers)
                       \o formatted_jira(answers)
           marker == <<"\n", "\n", "B", "R", "E", "A", "K", "I", "N", "G", " ",
                       "C", "H", "A", "N", "G", "E", ":", " ">>
       IN  /\ answers.is_breaking_change => msg = before \o marker \o answers.footer
           /\ ~answers.is_breaking_change /\ answers.footer # <<>> =>
                 msg = before \o <<"\n", "\n">> \o answers.footer
           /\ ~answers.is_breaking_change /\ answers.footer = <<>> => msg = before

\* A breaking change with an empty footer.
C2_Witness ==
    /\ pc = "done"
    /\ answers.is_breaking_change
    /\ answers.footer = <<>>
    /\ ExclamationEnabled

\* C3: in a session the message is composed only from a non-empty subject
\* and from jira_issues that is empty or holds issue keys only; a session
\* in which a filter raised composes no message and asks nothing further.
C3_ValidatedAnswers ==
    /\ pc \in {"body", "is_breaking_change", "footer", "message", "done"} =>
          answers.subject # <<>>
    /\ pc \notin {"jira_issues", "aborted"} => OnlyIssueKeys(answers.jira_issues)
    /\ pc = "done" => answers.subject # <<>> /\ error.raised = "none"
    /\ pc = "aborted" =>
          /\ error.raised # "none"
          /\ msg = <<>>
          /\ answers.body = <<>> /\ answers.footer = <<>>

\* A message composed in a session that gave issue keys.
C3_Witness ==
    /\ pc = "done"
    /\ answers.jira_issues # <<>>
    /\ msg # <<>>

\* C6: the message is title + body section + metadata section + footer
\* section, a section being "\n\n" + its content when the content is
\* non-empty and nothing otherwise; the metadata content is the non-empty
\* members of jira_workflow, jira_time, jira_comment in that order with one
\* space between neighbours; message() adds one "\n\n" per non-empty section.
C6_Sections ==
    pc = "done" =>
       /\ msg = ExpectedTitle \o Section(answers.body) \o Section(ExpectedMetadata)
                   \o Section(ExpectedFooter)
       /\ Len(msg) = Len(ExpectedTitle) + Len(answers.body) + Len(ExpectedMetadata)
                       + Len(ExpectedFooter)
                       + 2 * Cardinality({i \in 1..3 :
                               <<answers.body, ExpectedMetadata, ExpectedFooter>>[i] # <<>>})

\* A body, a workflow and a comment but no time.
C6_Witness ==
    /\ pc = "done"
    /\ answers.body # <<>>
    /\ answers.jira_workflow # <<>>
    /\ answers.jira_time = <<>>
    /\ answers.jira_comment # <<>>

\* C7: the pattern of schema_pattern() matches the message composed from
\* the answers of every session, and matches example() (a constant, looked
\* at once, when the session starts).
C7_SchemaMatchesMessage ==
    /\ pc = "jira_issues" => schema_match(example)
    /\ pc = "done" => schema_match(msg)

\* C7, the part that holds: the pattern matches example() and every message
\* whose subject holds no line break.
C7_SchemaMatchesSingleLineSubject ==
    /\ pc = "jira_issues" => Len(example) + 1 \in schema_pattern(example)
    /\ pc = "done" /\ ~HasLineBreak(answers.subject) =>
          Len(msg) + 1 \in schema_pattern(msg)

----------------------------------------------------------------------------
(* Properties of the filters, checked on the harness of FilterSpec.        *)

\* C4: the subject filter returns the text without its trailing periods and
\* then without its leading and trailing whitespace, and raises "Subject is
\* required." exactly when that is the empty string.
C4_SubjectFilter ==
    fname = "subject" =>
       LET expected == Trimmed(WithoutTrailingPeriods(text))
       IN  IF expected = <<>>
           THEN /\ result.raised = "AnswerRequiredError"
                /\ result.message = "Subject is required."
           ELSE /\ result.raised = "none"
                /\ result.value = expected

\* C4, what the code does: leading periods are removed as well.
C4_SubjectFilterBothEnds ==
    fname = "subject" =>
       LET expected == Trimmed(WithoutOuterPeriods(text))
       IN  IF expected = <<>>
           THEN /\ result.raised = "AnswerRequiredError"
                /\ result.message = "Subject is required."
           ELSE /\ result.raised = "none"
                /\ result.value = expected

C8_WorkflowFilter ==
    fname = "jira_workflow" =>
       LET t == Trimmed(text)
           v == result.value
       IN  /\ t = <<>> => v = <<>>
           /\ t # <<>> => v = <<"#">> \o [i \in 1..Len(t) |->
                                            IF t[i] = " " THEN "-" ELSE t[i]]
           /\ v # <<"#">>
           /\ \A i \in 1..Len(v) : v[i] # " "

\* C9 as stated: the jira-time filter returns "#time " + the trimmed input,
\* and the empty string for empty input.
C9_TimeTrimmed ==
    fname = "jira_time" =>
       result.value = IF text = <<>> THEN <<>>
                      ELSE <<"#", "t", "i", "m", "e", " ">> \o Trimmed(text)

\* C9, amended: the jira-time filter returns "#time " followed by the input
\* as typed, untrimmed, and the empty string for empty input.
C9_TimeFilter ==
    fname = "jira_time" =>
       /\ text = <<>> => result.value = <<>>
       /\ text # <<>> =>
             /\ Len(result.value) = Len(text) + 6
             /\ SubSeq(result.value, 1, 6) = <<"#", "t", "i", "m", "e", " ">>
             /\ SubSeq(result.value, 7, Len(result.value)) = text

\* An input with whitespace around a text.
C9_Witness ==
    /\ fname = "jira_time"
    /\ Len(text) >= 3
    /\ text[1] \in Whitespace
    /\ text[Len(text)] \in Whitespace
    /\ Trimmed(text) # <<>>

\* C10: the scope filter returns the whitespace-separated tokens of the
\* input joined by single hyphens; its output holds no whitespace and the
\* filter leaves its own output unchanged.
C10_ScopeFilter ==
    fname = "scope" =>
       /\ result.value = TokensJoinedBy(text, <<"-">>)
       /\ \A i \in 1..Len(result.value) : result.value[i] \notin Whitespace
       /\ Trimmed(text) = <<>> => result.value = <<>>
       /\ _parse_scope(result.value) = result.value

\* Two tokens separated by whitespace.
C10_Witness ==
    /\ fname = "scope"
    /\ \E i \in 2..(Len(text) - 1) :
          /\ text[i] \in Whitespace
          /\ text[i - 1] \notin Whitespace
          /\ text[i + 1] \notin Whitespace
    /\ Len(result.value) = Len(text)

====
